---- MODULE Spec2Model ----
(***************************************************************************)
(* One call session of the voice agent: the telephony transport (ws), the  *)
(* transcription bridge (dg), the reply cycle, the outbound frame senders  *)
(* and the end-of-call lead.  The repository holds five variants of the    *)
(* server; `variant` selects which one the session runs:                   *)
(*   "server_a"  src/server.js lines 1-275    (queued sender, lazy bridge) *)
(*   "server_b"  src/server.js lines 276-607  (paced wsSendMedia)          *)
(*   "part_000"  src/unnamed/part_000         (paced wsSendMedia, speak)   *)
(*   "part_001"  src/unnamed/part_001         (unpaced wsSendMedia)        *)
(*   "part_002"  src/unnamed/part_002         (paced wsSendMedia)          *)
(***************************************************************************)
EXTENDS Integers, Sequences, FiniteSets, TLC

\* ---------------------------------------------------------------- constants
FRAME_BYTES == 160
chunkSize == 160
PRIME_FRAMES == 3
SUMMARY_MAX == 800
HANGUP_LEN == 23
ULawSilence == 255
BIAS == 132
CLIP == 32635

\* ------------------------------------------------------------------- bounds
\* Events the environment sends a session in all (inbound messages, disconnects
\* and failures), and inbound messages of each kind.
MaxEvents == 2
MaxStart == 2
MaxFinal == 2
MaxStop == 2
MaxMedia == 2
\* Bytes beyond one frame in a synthesized buffer that needs padding.
ExtraBytes == 40
\* Bytes of container header a provider may put in front of the audio.
ContainerBytes == 44
\* Characters of one finalized transcript.
PieceLen == 900
\* Longest buffer handed to padToFrame and toFrames on their own.
MaxBufLen == 330
\* Longest PCM buffer, in bytes, handed to downsamplePCM16LE on its own.
MaxPcmLen == 14
\* Buffers handed to the senders of one session driven on their own.
MaxEnq == 2
\* Longest answer of the reasoning service handed to parseJsonLoose on its own.
MaxTextLen == 4

Variants == {"server_a", "server_b", "part_000", "part_001", "part_002"}

\* Variants whose wsSendMedia is the paced async loop carrying streamSid.
PacedVariants == {"server_b", "part_000", "part_002"}

\* Lengths a synthesis can return: nothing, or one frame and a tail (of which
\* the first ContainerBytes are header when the response came in a container).
AudioLens == {0, FRAME_BYTES + ExtraBytes}

VARIABLES
  variant,        \* which server variant runs the session
  haveDG,         \* DEEPGRAM_API_KEY is set
  wsState,        \* ws.readyState of the telephony transport
  crashed,        \* "no", or the uncaught exception that ended the process
  streamSid,      \* streamSid / state.streamSid ("none": null, undefined or '')
  caller,         \* state.caller ("none": '')
  dg,             \* the bridge: "null" (not created) or its readyState
  dgCreated,      \* number of bridge connections created
  fullTranscript, \* state.fullTranscript
  senders,        \* server_a: every startAudioSender closure, newest last
  tasks,          \* suspended async handlers (reply, greeting, stop)
  sent,           \* media messages written to the transport, in order
  elapsed,        \* a full 20 ms has passed since the last transmitted frame
  nEnq,           \* number of buffers handed to a sender so far
  dgSent,         \* audio chunks forwarded to the bridge, in order
  leads,          \* lead records handed to the dispatcher, in order
  wsErrored,      \* the transport has emitted 'error'
  nStart, nFinal, nStop, nMedia,  \* inbound messages received so far
  nFail,          \* disconnects and failures of the transport and the bridge so far
  audioIn,        \* media events with a payload received while Started, by number
  dgErrored,      \* the bridge has emitted 'error'
  probe,          \* the last webhook exchange or helper call outside any session
  synth           \* the last synthesis: provider outcomes, requests made, bytes returned

vars == <<audioIn, synth, dgErrored, probe,
          variant, haveDG, wsState, crashed, streamSid, caller, dg, dgCreated,
          fullTranscript, senders, tasks, sent, elapsed, nEnq, dgSent, leads,
          wsErrored, nStart, nFinal, nStop, nMedia, nFail>>

\* ------------------------------------------------------------------ helpers
Min(a, b) == IF a < b THEN a ELSE b

\* A frame is the bytes [off, off + n) of buffer number seq, followed by pad
\* silence bytes (0xFF).  kind "silence" marks the priming buffer.
Frame(seq, kind, off, n, pad) ==
  [seq |-> seq, kind |-> kind, off |-> off, n |-> n, pad |-> pad]

\* A padToFrame that would pad a buffer that is already whole frames.
padToFrame_AlwaysPads(len) ==
  len + (FRAME_BYTES - (len % FRAME_BYTES))

\* padToFrame: the padded length of a buffer of length len.
padToFrame(len) ==
  LET rem == len % FRAME_BYTES
  IN  IF rem = 0 THEN len ELSE len + (FRAME_BYTES - rem)

\* toFrames: p.subarray(i, i + FRAME_BYTES) for i = 0, FRAME_BYTES, ... over the
\* padded buffer p; the pad bytes fall in the last frame.
toFrames(seq, kind, len) ==
  LET p == padToFrame(len)
  IN  [j \in 1..(p \div FRAME_BYTES) |->
         LET off == (j - 1) * FRAME_BYTES
             n   == Min(FRAME_BYTES, len - off)
         IN  Frame(seq, kind, off, n, FRAME_BYTES - n)]

\* buildSilence(frames): a buffer of FRAME_BYTES * frames silence bytes.
buildSilence(frames) == FRAME_BYTES * frames

\* mulawBytes.slice(i, i + chunkSize): no padding, the tail chunk is short.
sliceChunk(seq, len, i) == Frame(seq, "audio", i, Min(chunkSize, len - i), 0)

\* ws.send(JSON.stringify({event:'media', streamSid, media:{payload}})).
MediaMsg(sid, frame, paced) == [sid |-> sid, frame |-> frame, paced |-> paced]

\* dg.close() / dg?.close(): an open socket starts closing (and can still
\* deliver messages until the close completes); a connecting one has its
\* handshake aborted and never opens.
dgClose(d) ==
  IF d = "OPEN" THEN "CLOSING" ELSE IF d = "CONNECTING" THEN "CLOSED" ELSE d

\* ws.close(): the transport starts closing.
wsClose(w) == IF w = "OPEN" THEN "CLOSING" ELSE w

\* The k-th start event's stream token and caller parameter.
Tok(k) == IF k = 1 THEN "SX1" ELSE IF k = 2 THEN "SX2" ELSE "SX3"
Cal(k) == IF k = 1 THEN "c1" ELSE IF k = 2 THEN "c2" ELSE "c3"

\* A suspended async handler: the k-th greeting, reply or stop.
Task(kind, pc, k, sid, seq, len, off, timer, text) ==
  [kind |-> kind, pc |-> pc, k |-> k, sid |-> sid, seq |-> seq, len |-> len,
   off |-> off, timer |-> timer, text |-> text]

\* --------------------------------------------------------------- synthesis
\* What the primary provider (ElevenLabs) answers: raw audio, audio wrapped in
\* a container ("wav"), a 200 with a JSON content type, or a failed request
\* (axios rejects, also on a non-2xx status); and what the secondary (OpenAI)
\* answers.
PrimaryOutcomes == {"audio", "wav", "json", "fail"}
SecondaryOutcomes == {"audio", "fail"}

\* No synthesis has run yet.
NoSynth ==
  [primary |-> "none", secondary |-> "none", priCalls |-> 0, secCalls |-> 0,
   len |-> 0, hdr |-> 0]

\* ttsOpenAI(text): the downsampled audio, or an empty array on any error.
ttsOpenAI(s) == IF s = "audio" THEN FRAME_BYTES + ExtraBytes ELSE 0

\* ttsSynthesize(text): return new Uint8Array(r.data), the primary's response
\* body as it came (hdr of its bytes are container header); on a JSON answer
\* or a failed request, return await ttsOpenAI(text).
ttsSynthesize(p, s) ==
  IF p = "audio"
  THEN [primary |-> p, secondary |-> "none", priCalls |-> 1, secCalls |-> 0,
        len |-> FRAME_BYTES + ExtraBytes, hdr |-> 0]
  ELSE IF p = "wav"
  THEN [primary |-> p, secondary |-> "none", priCalls |-> 1, secCalls |-> 0,
        len |-> FRAME_BYTES + ExtraBytes, hdr |-> ContainerBytes]
  ELSE [primary |-> p, secondary |-> s, priCalls |-> 1, secCalls |-> 1,
        len |-> ttsOpenAI(s), hdr |-> 0]

\* server_a synthesizeUlaw8000(text): one provider (OpenAI); on any error
\* Buffer.alloc(0).  p is what that provider answers; no second provider.
synthesizeUlaw8000(p) ==
  [primary |-> p, secondary |-> "none", priCalls |-> 1, secCalls |-> 0,
   len |-> IF p = "audio" THEN FRAME_BYTES + ExtraBytes ELSE 0, hdr |-> 0]

\* Nothing has been asked outside the session yet; one request or helper call
\* is followed in a behaviour.
NoProbe == [op |-> "none"]

\* const state = {...}; let streamSid = null; dg created lazily (server_a)
\* or on connection (the others).
Init ==
  /\ variant \in Variants
  /\ haveDG \in BOOLEAN
  /\ wsState = "OPEN"
  /\ crashed = "no"
  /\ streamSid = "none"
  /\ caller = "none"
  /\ dg = IF variant = "server_a" THEN "null" ELSE "CONNECTING"
  /\ dgCreated = IF variant = "server_a" THEN 0 ELSE 1
  /\ fullTranscript = <<>>
  /\ senders = <<>>
  /\ tasks = {}
  /\ sent = <<>>
  /\ elapsed = TRUE
  /\ nEnq = 0
  /\ dgSent = <<>>
  /\ leads = <<>>
  /\ wsErrored = FALSE
  /\ nStart = 0 /\ nFinal = 0 /\ nStop = 0 /\ nMedia = 0 /\ nFail = 0
  /\ audioIn = {}
  /\ dgErrored = FALSE
  /\ probe = NoProbe
  /\ synth = NoSynth

\* ------------------------------------------------- outbound sender (server_a)
\* startAudioSender(ws, streamSid): let q = []; let sending = false; let primed = false.
NewSender(sid) ==
  [sid |-> sid, q |-> <<>>, sending |-> FALSE, primed |-> FALSE, timer |-> "none"]

\* A tick that would leave the draining flag set when it stops.
tick_KeepsSending(s, open) ==
  IF Len(s.q) = 0 \/ ~open
  THEN [s |-> [s EXCEPT !.timer = "none"], out |-> <<>>]
  ELSE [s |-> [s EXCEPT !.q = Tail(s.q), !.timer = "wait"], out |-> <<Head(s.q)>>]

\* tick: stop when the queue is empty or the transport is not open; otherwise
\* shift one frame, send it, and setTimeout(tick, 20).  Returns the sender
\* after the call and the frames it wrote (none or one).
tick(s, open) ==
  IF Len(s.q) = 0 \/ ~open
  THEN [s |-> [s EXCEPT !.sending = FALSE, !.timer = "none"], out |-> <<>>]
  ELSE [s |-> [s EXCEPT !.q = Tail(s.q), !.timer = "wait"], out |-> <<Head(s.q)>>]

\* enqueue(buf): prime once with silence, append the frames of buf, start the
\* pacing loop if none is running.
enqueue(s, seq, len, open) ==
  LET q1 == IF ~s.primed
            THEN s.q \o toFrames(seq, "silence", buildSilence(PRIME_FRAMES))
            ELSE s.q
      s2 == [s EXCEPT !.primed = TRUE, !.q = q1 \o toFrames(seq, "audio", len)]
  IN  IF ~s2.sending THEN tick([s2 EXCEPT !.sending = TRUE], open)
      ELSE [s |-> s2, out |-> <<>>]

\* A clear that would also reset the draining flag.
clear_ResetsSending(s) == [s EXCEPT !.q = <<>>, !.primed = FALSE, !.sending = FALSE]

\* clear(): q = []; primed = false.
clear(s) == [s EXCEPT !.q = <<>>, !.primed = FALSE]

\* The messages written for frames `out` with token sid: only the first can
\* follow a full pacing delay.
Msgs(sid, out) ==
  [j \in 1..Len(out) |-> MediaMsg(sid, out[j], IF j = 1 THEN elapsed ELSE FALSE)]

\* Write frames `out` with token sid to the transport.
Transmit(sid, out) ==
  /\ sent' = sent \o Msgs(sid, out)
  /\ elapsed' = IF Len(out) = 0 THEN elapsed ELSE FALSE

\* part_001 wsSendMedia(ws, mulawBytes): every chunk in one synchronous loop,
\* no streamSid; ws.send on a transport that is not open transmits nothing.
allChunks(seq, len) ==
  [j \in 1..((len + chunkSize - 1) \div chunkSize) |->
     sliceChunk(seq, len, (j - 1) * chunkSize)]

\* ------------------------------------------------------------ event guards
\* Events the environment has sent so far.  server_a opens its bridge on media
\* events, which its budget leaves out (MaxMedia bounds them).
Events == nStart + nFinal + nStop + nFail + (IF variant = "server_a" THEN 0 ELSE nMedia)

\* An expired timer: a paced loop or a sender whose 20 ms have passed.
TimerDue ==
  \/ \E t \in tasks : t.timer = "due"
  \/ \E i \in 1..Len(senders) : senders[i].timer = "due"

\* The process runs.
Running == crashed = "no"

\* An I/O callback can run: the event loop runs expired timers first.
Alive == Running /\ ~TimerDue

\* The transport can still deliver a message: open, or closing by ws.close().
WsLive == Alive /\ (wsState = "OPEN" \/ (wsState = "CLOSING" /\ ~wsErrored))

\* The bridge can still deliver a message: open, or closing by dg.close().
DgLive == Alive /\ dg \in {"OPEN", "CLOSING"}

WsOpen == wsState = "OPEN"

\* The session is Started or Active: start received, no stop, transport open.
Started == nStart > 0 /\ nStop = 0 /\ wsState = "OPEN"

\* -------------------------------------------------------- ws 'message': start
\* server_a: streamSid = msg?.start?.streamSid; sender = startAudioSender(ws, streamSid).
StartA(tok, cal) ==
  /\ variant = "server_a"
  /\ streamSid' = tok
  /\ senders' = Append(senders, NewSender(tok))
  /\ UNCHANGED <<caller, tasks>>

\* server_b, part_000, part_002: record caller and streamSid, then synthesize
\* the greeting (await ttsSynthesize / await speak).
StartGreet(tok, cal) ==
  /\ variant \in PacedVariants
  /\ caller' = cal
  /\ streamSid' = tok
  /\ tasks' = tasks \cup {Task("greet", "tts", nStart + 1, "none", 0, 0, 0, "none", <<>>)}
  /\ UNCHANGED senders

\* part_001: state.caller only; there is no streamSid in the session state.
StartCallerOnly(tok, cal) ==
  /\ variant = "part_001"
  /\ caller' = cal
  /\ UNCHANGED <<streamSid, tasks, senders>>

WsStart ==
  /\ WsLive
  /\ nStart < MaxStart /\ Events < MaxEvents
  /\ \E p \in {<<"none", "none">>, <<Tok(nStart + 1), Cal(nStart + 1)>>} :
       \/ StartA(p[1], p[2])
       \/ StartGreet(p[1], p[2])
       \/ StartCallerOnly(p[1], p[2])
  /\ nStart' = nStart + 1
  /\ UNCHANGED <<variant, haveDG, dgErrored, probe, audioIn, synth, wsState, crashed, dg, dgCreated, fullTranscript,
                 sent, elapsed, nEnq, dgSent, leads, wsErrored, nFinal, nStop, nMedia, nFail>>

\* -------------------------------------------------------- ws 'message': media
\* An ensureDG that would connect again once the bridge has closed.
ensureDG_Reconnects(d) ==
  IF d \in {"null", "CLOSED"} /\ haveDG THEN "CONNECTING" ELSE d

\* ensureDG: create the bridge once, and only when the key is set.
ensureDG(d) == IF d = "null" /\ haveDG THEN "CONNECTING" ELSE d

\* server_a: ensureDG(); if the bridge is open, Buffer.from(msg.media.payload,
\* 'base64') and dg.send.  Without media.payload Buffer.from throws a TypeError
\* outside any try block.
MediaA(ok) ==
  /\ variant = "server_a"
  /\ dg' = ensureDG(dg)
  /\ dgCreated' = IF dg' # dg THEN dgCreated + 1 ELSE dgCreated
  /\ IF dg' = "OPEN"
     THEN IF ok
          THEN dgSent' = Append(dgSent, nMedia + 1) /\ crashed' = crashed
          ELSE dgSent' = dgSent /\ crashed' = "TypeError"
     ELSE UNCHANGED <<dgSent, crashed>>

\* server_b, part_002: if the bridge is open,
\* dg.send(Buffer.from(msg.media?.payload || '', 'base64')): a missing payload
\* forwards an empty chunk (written 0).
MediaOrEmpty(ok) ==
  /\ variant \in {"server_b", "part_002"}
  /\ dgSent' = IF dg = "OPEN" THEN Append(dgSent, IF ok THEN nMedia + 1 ELSE 0)
               ELSE dgSent
  /\ UNCHANGED <<dg, dgCreated, crashed>>

\* A media handler that would put the chunk ahead of those already forwarded.
MediaGuarded_Prepends(ok) ==
  /\ variant \in {"part_000", "part_001"}
  /\ dgSent' = IF ok /\ dg = "OPEN" THEN <<nMedia + 1>> \o dgSent ELSE dgSent
  /\ UNCHANGED <<dg, dgCreated, crashed>>

\* part_000, part_001: if (b64 && dg.readyState === OPEN) dg.send(...).
MediaGuarded(ok) ==
  /\ variant \in {"part_000", "part_001"}
  /\ dgSent' = IF ok /\ dg = "OPEN" THEN Append(dgSent, nMedia + 1) ELSE dgSent
  /\ UNCHANGED <<dg, dgCreated, crashed>>

WsMedia ==
  /\ WsLive
  /\ nMedia < MaxMedia /\ Events < MaxEvents
  /\ \E ok \in BOOLEAN :
       /\ MediaA(ok) \/ MediaOrEmpty(ok) \/ MediaGuarded(ok)
       /\ audioIn' = IF ok /\ Started THEN audioIn \cup {nMedia + 1} ELSE audioIn
  /\ nMedia' = nMedia + 1
  /\ UNCHANGED <<variant, haveDG, dgErrored, probe, synth, wsState, streamSid, caller, fullTranscript,
                 senders, tasks, sent, elapsed, nEnq, leads, wsErrored,
                 nStart, nFinal, nStop, nFail>>

\* --------------------------------------------------------- ws 'message': stop
\* server_a: dg?.close(); ws?.close().  No transcript, no lead.
StopA ==
  /\ variant = "server_a"
  /\ dg' = dgClose(dg)
  /\ wsState' = wsClose(wsState)
  /\ UNCHANGED tasks

\* state.fullTranscript.join(' '), then await llmExtract(text || 'Caller hung
\* up quickly.').  server_b closes the bridge first; part_000, part_001 and
\* part_002 close it after the dispatch (PostDone).
StopExtract ==
  /\ variant # "server_a"
  /\ dg' = IF variant = "server_b" THEN dgClose(dg) ELSE dg
  /\ tasks' = tasks \cup {Task("stop", "extract", nStop + 1, "none", 0, 0, 0,
                                 "none", fullTranscript)}
  /\ UNCHANGED wsState

WsStop ==
  /\ WsLive
  /\ nStop < MaxStop /\ Events < MaxEvents
  /\ (StopA \/ StopExtract)
  /\ nStop' = nStop + 1
  /\ UNCHANGED <<variant, haveDG, dgErrored, probe, audioIn, synth, crashed, streamSid, caller, dgCreated,
                 fullTranscript, senders, sent, elapsed, nEnq, dgSent, leads,
                 wsErrored, nStart, nFinal, nMedia, nFail>>

\* ws 'message' with a frame that is not JSON: JSON.parse throws inside the
\* handler's try block and the message is dropped.
WsGarbage ==
  /\ WsLive
  /\ UNCHANGED vars

\* ------------------------------------------------------ ws 'close', 'error'
\* The handler of ws 'close' and (server_a) of ws 'error': server_a, part_000
\* and part_001 close the bridge; server_b and part_002 only log.
onWsEnd(d) == IF variant \in {"server_a", "part_000", "part_001"} THEN dgClose(d) ELSE d

\* The transport closes (peer disconnect, or the close started by ws.close()
\* or by an error completes) and 'close' is emitted.
WsClose ==
  /\ Alive
  /\ wsState \in {"OPEN", "CLOSING"}
  /\ wsState = "OPEN" => Events < MaxEvents
  /\ nFail' = IF wsState = "OPEN" THEN nFail + 1 ELSE nFail
  /\ wsState' = "CLOSED"
  /\ dg' = onWsEnd(dg)
  /\ UNCHANGED <<variant, haveDG, dgErrored, probe, audioIn, synth, crashed, streamSid, caller, dgCreated,
                 fullTranscript, senders, tasks, sent, elapsed, nEnq, dgSent,
                 leads, wsErrored, nStart, nFinal, nStop, nMedia>>

\* The transport fails: readyState becomes CLOSING and 'error' is emitted.
\* part_000 and part_001 register no 'error' listener, so the emit throws.
WsError ==
  /\ Alive
  /\ wsState = "OPEN" /\ Events < MaxEvents
  /\ nFail' = nFail + 1
  /\ wsState' = "CLOSING"
  /\ wsErrored' = TRUE
  /\ dg' = IF variant = "server_a" THEN dgClose(dg) ELSE dg
  /\ crashed' = IF variant \in {"part_000", "part_001"} THEN "UnhandledError" ELSE crashed
  /\ UNCHANGED <<variant, haveDG, dgErrored, probe, audioIn, synth, streamSid, caller, dgCreated, fullTranscript,
                 senders, tasks, sent, elapsed, nEnq, dgSent, leads,
                 nStart, nFinal, nStop, nMedia>>

\* ------------------------------------------------------------ bridge events
\* dg 'open': the service accepts the handshake (it refuses one whose
\* Authorization header carries no key).  part_001 greets here: await
\* speak(greeting).
DgOpen ==
  /\ Alive
  /\ dg = "CONNECTING" /\ haveDG
  /\ dg' = "OPEN"
  /\ tasks' = IF variant = "part_001"
              THEN tasks \cup {Task("greet", "tts", 0, "none", 0, 0, 0, "none", <<>>)}
              ELSE tasks
  /\ UNCHANGED <<variant, haveDG, dgErrored, probe, audioIn, synth, wsState, crashed, streamSid, caller, dgCreated,
                 fullTranscript, senders, sent, elapsed, nEnq, dgSent, leads,
                 wsErrored, nStart, nFinal, nStop, nMedia, nFail>>

\* dg 'error' (then 'close'), or the service ending the connection: every
\* variant logs the error and goes on.
DgFail ==
  /\ Alive
  /\ dg \in {"CONNECTING", "OPEN"} /\ Events < MaxEvents
  /\ nFail' = nFail + 1
  /\ dg' = "CLOSED"
  /\ dgErrored' = TRUE
  /\ UNCHANGED <<variant, haveDG, probe, audioIn, synth, wsState, crashed, streamSid, caller, dgCreated,
                 fullTranscript, senders, tasks, sent, elapsed, nEnq, dgSent,
                 leads, wsErrored, nStart, nFinal, nStop, nMedia>>

\* The close started by dg.close() completes.
DgClosed ==
  /\ Alive
  /\ dg = "CLOSING"
  /\ dg' = "CLOSED"
  /\ UNCHANGED <<variant, haveDG, dgErrored, probe, audioIn, synth, wsState, crashed, streamSid, caller, dgCreated,
                 fullTranscript, senders, tasks, sent, elapsed, nEnq, dgSent,
                 leads, wsErrored, nStart, nFinal, nStop, nMedia, nFail>>

\* The shapes of a bridge message: valid JSON or not, with a first alternative
\* or not, the two finality fields, and whether the transcript has text.
DgMsgs ==
  { [json |-> TRUE,  alt |-> TRUE,  is_final |-> TRUE,  speech_final |-> FALSE, text |-> TRUE],
    [json |-> TRUE,  alt |-> TRUE,  is_final |-> FALSE, speech_final |-> TRUE,  text |-> TRUE],
    [json |-> TRUE,  alt |-> TRUE,  is_final |-> FALSE, speech_final |-> FALSE, text |-> TRUE],
    [json |-> TRUE,  alt |-> TRUE,  is_final |-> TRUE,  speech_final |-> FALSE, text |-> FALSE],
    [json |-> TRUE,  alt |-> FALSE, is_final |-> TRUE,  speech_final |-> FALSE, text |-> FALSE],
    [json |-> FALSE, alt |-> FALSE, is_final |-> FALSE, speech_final |-> FALSE, text |-> FALSE] }

\* A message the service marks as finalized speech with text.
Finalized(m) == m.json /\ m.alt /\ (m.is_final \/ m.speech_final) /\ m.text

\* server_a: isFinal = msg?.is_final || msg?.speech_final; if (isFinal && transcript).
TriggersA(m) == m.json /\ (m.is_final \/ m.speech_final) /\ m.alt /\ m.text

\* A trigger that lets every message with a first alternative through.
TriggersB_NotOnlyFinal(m) == m.json /\ m.alt

\* The other variants: if (!alt) return; if (msg.is_final && transcript).
TriggersB(m) == m.json /\ m.alt /\ m.is_final /\ m.text

Triggers(m) == IF variant = "server_a" THEN TriggersA(m) ELSE TriggersB(m)

\* dg 'message': a triggering message appends the transcript (not server_a,
\* which keeps no log) and suspends in the reply generation.
DgMessage ==
  /\ DgLive
  /\ \E m \in DgMsgs :
       /\ Finalized(m) => (nFinal < MaxFinal /\ Events < MaxEvents)
       /\ nFinal' = IF Finalized(m) THEN nFinal + 1 ELSE nFinal
       /\ IF Triggers(m)
          THEN /\ fullTranscript' = IF variant = "server_a" THEN fullTranscript
                                    ELSE Append(fullTranscript, nFinal + 1)
               /\ tasks' = tasks \cup {Task("reply", "llm", nFinal + 1, "none",
                                              0, 0, 0, "none", <<>>)}
          ELSE UNCHANGED <<fullTranscript, tasks>>
  /\ UNCHANGED <<variant, haveDG, dgErrored, probe, audioIn, synth, wsState, crashed, streamSid, caller, dg,
                 dgCreated, senders, sent, elapsed, nEnq, dgSent, leads,
                 wsErrored, nStart, nStop, nMedia, nFail>>

\* ---------------------------------------------------------------- reply cycle
\* generateReply / llmReply returns (a reply or the fallback phrase).
LlmDone ==
  /\ Alive
  /\ \E t \in tasks :
       /\ t.pc = "llm"
       /\ tasks' = (tasks \ {t}) \cup {[t EXCEPT !.pc = "tts"]}
  /\ UNCHANGED <<variant, haveDG, dgErrored, probe, audioIn, synth, wsState, crashed, streamSid, caller, dg,
                 dgCreated, fullTranscript, senders, sent, elapsed, nEnq, dgSent,
                 leads, wsErrored, nStart, nFinal, nStop, nMedia, nFail>>

\* A reply handler that enqueues whatever the synthesis returned.
SpeakA_EnqueuesEmpty(t, len) ==
  /\ variant = "server_a"
  /\ tasks' = tasks \ {t}
  /\ IF Len(senders) > 0 /\ streamSid # "none"
     THEN LET n == Len(senders)
              r == enqueue(senders[n], nEnq + 1, len, WsOpen)
          IN  /\ senders' = [senders EXCEPT ![n] = r.s]
              /\ Transmit(senders[n].sid, r.out)
              /\ nEnq' = nEnq + 1
     ELSE UNCHANGED <<senders, sent, elapsed, nEnq>>

\* server_a, after await synthesizeUlaw8000(reply):
\* if (sender && streamSid && ulaw?.length) sender.enqueue(ulaw).
SpeakA(t, len) ==
  /\ variant = "server_a"
  /\ tasks' = tasks \ {t}
  /\ IF Len(senders) > 0 /\ streamSid # "none" /\ len > 0
     THEN LET n == Len(senders)
              r == enqueue(senders[n], nEnq + 1, len, WsOpen)
          IN  /\ senders' = [senders EXCEPT ![n] = r.s]
              /\ Transmit(senders[n].sid, r.out)
              /\ nEnq' = nEnq + 1
     ELSE UNCHANGED <<senders, sent, elapsed, nEnq>>

\* server_b, part_000, part_002: wsSendMedia(ws, bytes, state.streamSid):
\* return if there is no streamSid; otherwise send the first chunk (if the
\* transport is open) and await sleep(20).  An empty buffer runs no iteration
\* (part_000's speak skips the call for it).
SpeakPaced(t, len) ==
  /\ variant \in PacedVariants
  /\ UNCHANGED senders
  /\ IF streamSid = "none" \/ len = 0
     THEN tasks' = tasks \ {t} /\ UNCHANGED <<sent, elapsed, nEnq>>
     ELSE /\ tasks' = (tasks \ {t}) \cup
                       {Task(t.kind, "send", t.k, streamSid, nEnq + 1, len,
                             chunkSize, "wait", <<>>)}
          /\ Transmit(streamSid,
                      IF WsOpen THEN <<sliceChunk(nEnq + 1, len, 0)>> ELSE <<>>)
          /\ nEnq' = nEnq + 1

\* part_001: if (bytes?.length) wsSendMedia(ws, bytes): all chunks at once.
SpeakSync(t, len) ==
  /\ variant = "part_001"
  /\ UNCHANGED senders
  /\ tasks' = tasks \ {t}
  /\ IF len > 0
     THEN /\ Transmit("none", IF WsOpen THEN allChunks(nEnq + 1, len) ELSE <<>>)
          /\ nEnq' = nEnq + 1
     ELSE UNCHANGED <<sent, elapsed, nEnq>>

\* The synthesis of a greeting or a reply returns and the handler goes on with
\* the bytes it got (none when every provider asked has failed).
TtsDone ==
  /\ Alive
  /\ \E t \in tasks, p \in PrimaryOutcomes, s \in SecondaryOutcomes :
       /\ t.pc = "tts"
       /\ variant = "server_a" => p \in {"audio", "fail"}
       /\ synth' = IF variant = "server_a" THEN synthesizeUlaw8000(p)
                   ELSE ttsSynthesize(p, s)
       /\ synth'.len \in AudioLens
       /\ \/ SpeakA(t, synth'.len)
          \/ SpeakPaced(t, synth'.len)
          \/ SpeakSync(t, synth'.len)
  /\ UNCHANGED <<variant, haveDG, dgErrored, probe, audioIn, wsState, crashed, streamSid, caller, dg,
                 dgCreated, fullTranscript, dgSent, leads, wsErrored,
                 nStart, nFinal, nStop, nMedia, nFail>>

\* ---------------------------------------------------------------- timers
\* A paced wsSendMedia wakes from sleep(20): next chunk, or the loop ends.
LoopFire ==
  /\ Running
  /\ \E t \in tasks :
       /\ t.pc = "send" /\ t.timer = "due"
       /\ IF t.off < t.len
          THEN /\ tasks' = (tasks \ {t}) \cup
                            {[t EXCEPT !.off = t.off + chunkSize, !.timer = "wait"]}
               /\ Transmit(t.sid, IF WsOpen
                                  THEN <<sliceChunk(t.seq, t.len, t.off)>>
                                  ELSE <<>>)
          ELSE tasks' = tasks \ {t} /\ UNCHANGED <<sent, elapsed>>
  /\ UNCHANGED <<variant, haveDG, dgErrored, probe, audioIn, synth, wsState, crashed, streamSid, caller, dg,
                 dgCreated, fullTranscript, senders, nEnq, dgSent, leads,
                 wsErrored, nStart, nFinal, nStop, nMedia, nFail>>

\* server_a: a sender's setTimeout(tick, 20) fires.
SenderFire ==
  /\ Running
  /\ \E i \in 1..Len(senders) :
       /\ senders[i].timer = "due"
       /\ LET r == tick(senders[i], WsOpen)
          IN  /\ senders' = [senders EXCEPT ![i] = r.s]
              /\ Transmit(senders[i].sid, r.out)
  /\ UNCHANGED <<variant, haveDG, dgErrored, probe, audioIn, synth, wsState, crashed, streamSid, caller, dg,
                 dgCreated, fullTranscript, tasks, nEnq, dgSent, leads,
                 wsErrored, nStart, nFinal, nStop, nMedia, nFail>>

\* 20 ms pass: every pending timer becomes due.
Due(x) == IF x.timer = "wait" THEN [x EXCEPT !.timer = "due"] ELSE x

Advance ==
  /\ Running
  /\ \/ ~elapsed
     \/ \E t \in tasks : t.timer = "wait"
     \/ \E i \in 1..Len(senders) : senders[i].timer = "wait"
  /\ elapsed' = TRUE
  /\ tasks' = {Due(t) : t \in tasks}
  /\ senders' = [i \in 1..Len(senders) |-> Due(senders[i])]
  /\ UNCHANGED <<variant, haveDG, dgErrored, probe, audioIn, synth, wsState, crashed, streamSid, caller, dg,
                 dgCreated, fullTranscript, sent, nEnq, dgSent, leads,
                 wsErrored, nStart, nFinal, nStop, nMedia, nFail>>

\* ------------------------------------------------------------- end of call
\* 'Caller hung up quickly.': the phrase written as transcript number 0.
HangupText == <<0>>

\* The text handed to llmExtract: text || 'Caller hung up quickly.'.
ExtractInput(text) == IF text = <<>> THEN HangupText ELSE text

\* The characters of a text: pieces of PieceLen characters joined by one space
\* (fullTranscript.join(' ')), or the hangup phrase.
TextLen(text) ==
  IF text = HangupText THEN HANGUP_LEN
  ELSE IF text = <<>> THEN 0
  ELSE Len(text) * PieceLen + (Len(text) - 1)

\* A summary that keeps the whole text.
slice_NoLimit(text) == [of |-> text, chars |-> TextLen(text)]

\* text.slice(0, 800): the first SUMMARY_MAX characters of the text.
slice800(text) == [of |-> text, chars |-> Min(TextLen(text), SUMMARY_MAX)]

\* What the reasoning service does with the extraction request: an answer that
\* parses to an object with the fields, an answer without content (read as
\* '{}', which parses to an object without fields), an answer parseJsonLoose
\* rejects, or a failed request.
ExtractOutcomes == {"parsed", "empty", "unparsable", "error"}

\* llmExtract(text): the parsed object, or on a parse failure (parseJsonLoose
\* returns null) and in the catch block the default record.
llmExtract(text, outcome) ==
  IF outcome = "parsed"
  THEN [caller_name |-> "llm", suburb |-> "llm", job_type |-> "llm",
        urgency |-> "llm", preferred_time |-> "llm",
        call_summary |-> [of |-> <<>>, chars |-> 0]]
  ELSE IF outcome = "empty"
  THEN [caller_name |-> "undefined", suburb |-> "undefined", job_type |-> "undefined",
        urgency |-> "undefined", preferred_time |-> "undefined",
        call_summary |-> [of |-> <<>>, chars |-> 0]]
  ELSE [caller_name |-> "", suburb |-> "", job_type |-> "",
        urgency |-> "this_week", preferred_time |-> "",
        call_summary |-> slice800(text)]

\* llmExtract returns the parsed fields or the default record; the lead takes
\* caller_number from state.caller and goes to the dispatcher.
ExtractDone ==
  /\ Alive
  /\ \E t \in tasks, outcome \in ExtractOutcomes :
       /\ t.pc = "extract"
       /\ tasks' = (tasks \ {t}) \cup {[t EXCEPT !.pc = "post"]}
       /\ leads' = Append(leads, [fields |-> llmExtract(ExtractInput(t.text), outcome),
                                  outcome |-> outcome,
                                  text |-> ExtractInput(t.text),
                                  caller_number |-> caller])
  /\ UNCHANGED <<variant, haveDG, dgErrored, probe, audioIn, synth, wsState, crashed, streamSid, caller, dg,
                 dgCreated, fullTranscript, senders, sent, elapsed, nEnq, dgSent,
                 wsErrored, nStart, nFinal, nStop, nMedia, nFail>>

\* A dispatch after which the bridge would be left as it is.
PostDone_LeavesBridge ==
  /\ Alive
  /\ \E t \in tasks :
       /\ t.pc = "post"
       /\ tasks' = tasks \ {t}
  /\ UNCHANGED <<variant, haveDG, dgErrored, probe, audioIn, synth, wsState, crashed, streamSid, caller,
                 dg, dgCreated, fullTranscript, senders, sent, elapsed, nEnq, dgSent,
                 leads, wsErrored, nStart, nFinal, nStop, nMedia, nFail>>

\* The dispatch settles (delivered, failed or timed out).  part_000, part_001
\* and part_002 close the bridge only now: try { dg.close(); } catch {}.
PostDone ==
  /\ Alive
  /\ \E t \in tasks :
       /\ t.pc = "post"
       /\ tasks' = tasks \ {t}
  /\ dg' = IF variant = "server_b" THEN dg ELSE dgClose(dg)
  /\ UNCHANGED <<variant, haveDG, dgErrored, probe, audioIn, synth, wsState, crashed, streamSid, caller,
                 dgCreated, fullTranscript, senders, sent, elapsed, nEnq, dgSent,
                 leads, wsErrored, nStart, nFinal, nStop, nMedia, nFail>>

Next ==
  \/ WsStart \/ WsMedia \/ WsStop \/ WsGarbage \/ WsClose \/ WsError
  \/ DgOpen \/ DgFail \/ DgClosed \/ DgMessage
  \/ LlmDone \/ TtsDone \/ LoopFire \/ SenderFire \/ Advance
  \/ ExtractDone \/ PostDone

Spec == Init /\ [][Next]_vars

\* The same session when the extraction request and the dispatch settle (the
\* dispatch has an 8 s timeout) and the event loop runs every expired timer.
SpecLive ==
  /\ Init /\ [][Next]_vars
  /\ WF_vars(ExtractDone) /\ WF_vars(PostDone)
  /\ WF_vars(LoopFire) /\ WF_vars(SenderFire)

\* ------------------------------------------- the sender of server_a on its own
\* A session of server_a whose replies are not followed through the bridge,
\* the reasoning service and the synthesis: the bridge's message handler
\* reaches its enqueue with a synthesized buffer, and clear() is called from
\* outside.
InitSender == Init /\ variant = "server_a"

\* dg 'message': if (sender && streamSid && ulaw?.length) sender.enqueue(ulaw).
EnqueueCall ==
  /\ Alive
  /\ nEnq < MaxEnq
  /\ Len(senders) > 0 /\ streamSid # "none"
  /\ SpeakA(Task("reply", "tts", 0, "none", 0, 0, 0, "none", <<>>),
            FRAME_BYTES + ExtraBytes)
  /\ UNCHANGED <<variant, haveDG, dgErrored, probe, audioIn, synth, wsState,
                 crashed, streamSid, caller, dg, dgCreated, fullTranscript,
                 dgSent, leads, wsErrored, nStart, nFinal, nStop, nMedia, nFail>>

\* sender.clear() on the session's current sender.
ClearCall ==
  /\ Alive
  /\ Len(senders) > 0
  /\ senders' = [senders EXCEPT ![Len(senders)] = clear(@)]
  /\ UNCHANGED <<variant, haveDG, dgErrored, probe, audioIn, synth, wsState,
                 crashed, streamSid, caller, dg, dgCreated, fullTranscript,
                 tasks, sent, elapsed, nEnq, dgSent, leads, wsErrored,
                 nStart, nFinal, nStop, nMedia, nFail>>

NextSender == WsStart \/ EnqueueCall \/ ClearCall \/ SenderFire \/ Advance \/ WsClose

SpecSender == InitSender /\ [][NextSender]_vars

\* The start event of a stream that sends it once, as the telephony service
\* does: the session then has one sender.
StartOnce == nStart = 0 /\ WsStart

\* One sender with clear().
NextClear == StartOnce \/ EnqueueCall \/ ClearCall \/ SenderFire \/ Advance \/ WsClose

SpecClear == InitSender /\ [][NextClear]_vars

\* One sender without clear(); the event loop runs every timer that expires
\* and time passes.
NextDrain == StartOnce \/ EnqueueCall \/ SenderFire \/ Advance \/ WsClose

SpecDrain ==
  InitSender /\ [][NextDrain]_vars /\ WF_vars(SenderFire) /\ WF_vars(Advance)

\* ------------------------------------------------- the webhook and the helpers
\* verifyTwilio(req): true without TWILIO_AUTH_TOKEN; otherwise whether the
\* x-twilio-signature header equals the HMAC computed with the token.
verifyTwilio(secret, sig) == IF ~secret THEN TRUE ELSE sig = "valid"

\* An HTTP answer: its status and whether its body is the <Connect><Stream>
\* document.
Answer(status, twiml) == [status |-> status, twiml |-> twiml]

\* The answer with the document; building it needs PUBLIC_BASE_URL
\* (server_a answers 500 itself, elsewhere .replace throws on undefined and
\* express answers 500).
StreamTwiml(base) == IF base THEN Answer(200, TRUE) ELSE Answer(500, FALSE)

\* server_a app.post('/twilio/voice'): no signature check at all.
PostVoiceA(secret, sig, base) == StreamTwiml(base)

\* server_b app.get('/twilio/voice'): the document, no signature check.
GetVoiceB(secret, sig, base) == StreamTwiml(base)

\* server_b, part_000, part_001, part_002 app.post('/twilio/voice'):
\* if (!verifyTwilio(req)) return res.status(403).send('Bad signature').
PostVoice(secret, sig, base) ==
  IF ~verifyTwilio(secret, sig) THEN Answer(403, FALSE) ELSE StreamTwiml(base)

\* The route table of a variant: a method without a route gets express's 404.
TwilioVoice(v, method, secret, sig, base) ==
  IF v = "server_a"
  THEN IF method = "POST" THEN PostVoiceA(secret, sig, base) ELSE Answer(404, FALSE)
  ELSE IF method = "POST" THEN PostVoice(secret, sig, base)
  ELSE IF v = "server_b" THEN GetVoiceB(secret, sig, base)
  ELSE Answer(404, FALSE)

\* The segment loop of both encoders: for (mask = 0x4000; (s & mask) === 0 &&
\* exp > 0; mask >>= 1) exp--.
RECURSIVE segment(_, _, _)
segment(s, mask, exp) ==
  IF (s \div mask) % 2 = 0 /\ exp > 0 THEN segment(s, mask \div 2, exp - 1) ELSE exp

\* ~(sign | (exp << 4) | mant) & 0xFF: the three fields share no bit.
ulawByte(sign, exp, mant) == 255 - (sign + exp * 16 + mant)

\* server_a pcm16ToUlaw, for one sample: clip, add BIAS, find the segment,
\* mant = (s >> ((exp === 0) ? 4 : (exp + 3))) & 0x0F.
pcm16ToUlaw(sample) ==
  LET c    == IF sample > CLIP THEN CLIP ELSE IF sample < 0 - CLIP THEN 0 - CLIP ELSE sample
      sign == IF c < 0 THEN 128 ELSE 0
      s    == (IF c < 0 THEN 0 - c ELSE c) + BIAS
      exp  == segment(s, 16384, 7)
      mant == (s \div (2 ^ (IF exp = 0 THEN 4 ELSE exp + 3))) % 16
  IN  ulawByte(sign, exp, mant)

\* encodeLinearToMuLaw(sample) of the other variants: no clip, no bias,
\* mantissa = (sample >> (exponent + 3)) & 0x0F.
encodeLinearToMuLaw(sample) ==
  LET sign == IF sample < 0 THEN 128 ELSE 0
      s    == IF sample < 0 THEN 0 - sample ELSE sample
      exp  == segment(s, 16384, 7)
      mant == (s \div (2 ^ (exp + 3))) % 16
  IN  ulawByte(sign, exp, mant)

\* 16-bit samples handed to the encoder (readInt16LE).
Samples == {0, 1, -1, 8, 100, -100, 127, 128, 1000, 32635, -32635, 32767, -32768}

\* The encoder of the variant: pcm16ToUlaw in server_a; elsewhere ttsOpenAI's
\* encodeLinearToMuLaw(Math.max(-32768, Math.min(32767, pcm16[i]))), whose
\* bounds leave every 16-bit sample as it is.
ulawOf(sample) ==
  IF variant = "server_a" THEN pcm16ToUlaw(sample) ELSE encodeLinearToMuLaw(sample)

\* Sample rates of the buffers handed to downsamplePCM16LE, and the rate it
\* is asked for (synthesizeUlaw8000 asks 24000 -> 8000).
SrcRates == {8000, 16000, 24000}
DstRate == 8000

\* The loop of downsamplePCM16LE: for (i = 0; i + 2 <= pcmBuf.length; i += 2 *
\* ratio) { s = readInt16LE(i); out.writeInt16LE(s, o); o += 2 }.  reads are
\* the byte offsets read so far, each written at o = 2 * Len(reads);
\* writeInt16LE throws a RangeError when o + 2 exceeds the cap bytes of out.
RECURSIVE decimateLoop(_, _, _, _, _)
decimateLoop(len, step, cap, i, reads) ==
  IF i + 2 > len THEN [unchanged |-> FALSE, err |-> FALSE, cap |-> cap, reads |-> reads]
  ELSE IF 2 * Len(reads) + 2 > cap
  THEN [unchanged |-> FALSE, err |-> TRUE, cap |-> cap, reads |-> reads]
  ELSE decimateLoop(len, step, cap, i + step, Append(reads, i))

\* downsamplePCM16LE(pcmBuf, srcRate, dstRate) on a buffer of len bytes:
\* pcmBuf itself when the rates match; otherwise out = Buffer.alloc(
\* Math.floor(len / 2 / ratio) * 2) filled by the loop.
downsamplePCM16LE(len, srcRate, dstRate) ==
  IF srcRate = dstRate
  THEN [unchanged |-> TRUE, err |-> FALSE, cap |-> len, reads |-> <<>>]
  ELSE LET ratio == srcRate \div dstRate
       IN  decimateLoop(len, 2 * ratio, (len \div (2 * ratio)) * 2, 0, <<>>)

\* The characters of an answer of the reasoning service: the two braces, "k"
\* for a member such as "a":1, and "p" for a character of prose.
Chars == {"{", "}", "k", "p"}

Texts == UNION {[1..n -> Chars] : n \in 0..MaxTextLen}

\* text.indexOf(c), counted from 1 (0: not found): scan from the left.
RECURSIVE indexFrom(_, _, _)
indexFrom(text, c, i) ==
  IF i > Len(text) THEN 0
  ELSE IF text[i] = c THEN i ELSE indexFrom(text, c, i + 1)

indexOf(text, c) == indexFrom(text, c, 1)

\* text.lastIndexOf(c), counted from 1 (0: not found): scan from the right.
RECURSIVE lastIndexFrom(_, _, _)
lastIndexFrom(text, c, i) ==
  IF i < 1 THEN 0
  ELSE IF text[i] = c THEN i ELSE lastIndexFrom(text, c, i - 1)

lastIndexOf(text, c) == lastIndexFrom(text, c, Len(text))

\* return null.
Null == [null |-> TRUE, value |-> <<>>]

\* try { return JSON.parse(span) } catch { return null }: over Chars,
\* JSON.parse accepts {} and {"a":1} and throws a SyntaxError on anything else.
JSONparse(span) ==
  IF span \in {<<"{", "}">>, <<"{", "k", "}">>}
  THEN [null |-> FALSE, value |-> span]
  ELSE Null

\* A parseJsonLoose that would end the span at the first '}'.
parseJsonLoose_FirstClose(text) ==
  IF text = <<>> THEN Null
  ELSE LET s == indexOf(text, "{")
           e == indexOf(text, "}")
       IN  IF s = 0 \/ e = 0 \/ e < s THEN Null
           ELSE JSONparse(SubSeq(text, s, e))

\* parseJsonLoose(text): if (!text) return null; s = indexOf('{'), e =
\* lastIndexOf('}'); if (s === -1 || e === -1 || e < s) return null;
\* JSON.parse(text.slice(s, e + 1)) or null.
parseJsonLoose(text) ==
  IF text = <<>> THEN Null
  ELSE LET s == indexOf(text, "{")
           e == lastIndexOf(text, "}")
       IN  IF s = 0 \/ e = 0 \/ e < s THEN Null
           ELSE JSONparse(SubSeq(text, s, e))

\* An HTTP request reaches /twilio/voice.
WebhookRequest ==
  /\ probe = NoProbe
  /\ \E method \in {"GET", "POST"}, secret \in BOOLEAN,
        sig \in {"valid", "invalid", "missing"}, base \in BOOLEAN :
       probe' = [op |-> "webhook", method |-> method, secret |-> secret,
                 sig |-> sig, base |-> base,
                 answer |-> TwilioVoice(variant, method, secret, sig, base)]
  /\ UNCHANGED <<variant, haveDG, dgErrored, audioIn, synth, wsState, crashed,
                 streamSid, caller, dg, dgCreated, fullTranscript, senders,
                 tasks, sent, elapsed, nEnq, dgSent, leads, wsErrored,
                 nStart, nFinal, nStop, nMedia, nFail>>

\* padToFrame and toFrames are applied to a buffer of n bytes.
FrameBuffer ==
  /\ probe = NoProbe
  /\ \E n \in 0..MaxBufLen :
       probe' = [op |-> "frames", n |-> n, padded |-> padToFrame(n),
                 frames |-> toFrames(1, "audio", n)]
  /\ UNCHANGED <<variant, haveDG, dgErrored, audioIn, synth, wsState, crashed,
                 streamSid, caller, dg, dgCreated, fullTranscript, senders,
                 tasks, sent, elapsed, nEnq, dgSent, leads, wsErrored,
                 nStart, nFinal, nStop, nMedia, nFail>>

\* The variant's encoder is applied to one linear sample.
EncodeSample ==
  /\ probe = NoProbe
  /\ \E sample \in Samples :
       probe' = [op |-> "encode", sample |-> sample,
                 byte |-> ulawOf(sample)]
  /\ UNCHANGED <<variant, haveDG, dgErrored, audioIn, synth, wsState, crashed,
                 streamSid, caller, dg, dgCreated, fullTranscript, senders,
                 tasks, sent, elapsed, nEnq, dgSent, leads, wsErrored,
                 nStart, nFinal, nStop, nMedia, nFail>>

\* downsamplePCM16LE is applied to a buffer of len bytes.
DecimateBuffer ==
  /\ probe = NoProbe
  /\ \E len \in 0..MaxPcmLen, srcRate \in SrcRates :
       probe' = [op |-> "decimate", len |-> len, srcRate |-> srcRate,
                 dstRate |-> DstRate,
                 result |-> downsamplePCM16LE(len, srcRate, DstRate)]
  /\ UNCHANGED <<variant, haveDG, dgErrored, audioIn, synth, wsState, crashed,
                 streamSid, caller, dg, dgCreated, fullTranscript, senders,
                 tasks, sent, elapsed, nEnq, dgSent, leads, wsErrored,
                 nStart, nFinal, nStop, nMedia, nFail>>

\* parseJsonLoose is applied to an answer of the reasoning service.
ParseText ==
  /\ probe = NoProbe
  /\ \E text \in Texts :
       probe' = [op |-> "parse", text |-> text, result |-> parseJsonLoose(text)]
  /\ UNCHANGED <<variant, haveDG, dgErrored, audioIn, synth, wsState, crashed,
                 streamSid, caller, dg, dgCreated, fullTranscript, senders,
                 tasks, sent, elapsed, nEnq, dgSent, leads, wsErrored,
                 nStart, nFinal, nStop, nMedia, nFail>>

NextFn ==
  WebhookRequest \/ FrameBuffer \/ EncodeSample \/ DecimateBuffer \/ ParseText

SpecFn == Init /\ [][NextFn]_vars

\* =================================================================== claims

\* C1: every media message a session transmits carries a payload of exactly
\* FRAME_BYTES (160) bytes; a shorter tail is padded with silence, never sent short.
C1_EveryFrameIs160Bytes ==
  \A i \in 1..Len(sent) : sent[i].frame.n + sent[i].frame.pad = FRAME_BYTES

\* C2: every outbound media message carries the stream token a start event
\* delivered; none is transmitted while the token is absent.
C2_EveryFrameCarriesToken ==
  \A i \in 1..Len(sent) : sent[i].sid \in {Tok(k) : k \in 1..nStart}

\* C3: no reply interleaving: a finalized transcript starts being processed
\* only when no earlier reply is still being generated or synthesized.
C3_OneReplyInFlight ==
  Cardinality({t \in tasks : t.kind = "reply" /\ t.pc \in {"llm", "tts"}}) <= 1

\* Frame f goes out before frame g in enqueue order: an earlier buffer first,
\* within one enqueue the priming silence first, within one buffer by offset.
Before(f, g) ==
  \/ f.seq < g.seq
  \/ f.seq = g.seq /\ f.kind = "silence" /\ g.kind = "audio"
  \/ f.seq = g.seq /\ f.kind = g.kind /\ f.off < g.off

\* C4: outbound frames reach the transport in the order they were enqueued:
\* every frame of an earlier buffer before any frame of a later one, and each
\* buffer's frames in byte order.
C4_FramesSentInEnqueueOrder ==
  \A i, j \in 1..Len(sent) : i < j => Before(sent[i].frame, sent[j].frame)

\* C5: between any two consecutive media frames on the transport at least one
\* full 20 ms pacing delay elapses.
C5_FramesPaced ==
  \A i \in 2..Len(sent) : sent[i].paced

\* C6: per session the transcript log is joined once and exactly one lead
\* record is handed to the dispatcher, never more, also when stop is delivered
\* more than once.
C6_AtMostOneLead ==
  Len(leads) <= 1

\* C7: once the transport has disconnected or failed (and its handler has
\* run), the transcription bridge is not left connecting or open.
C7_BridgeClosedWithTransport ==
  (Running /\ (wsState = "CLOSED" \/ wsErrored)) => dg \notin {"CONNECTING", "OPEN"}

\* C8: the stop handler closes the bridge eagerly: while lead extraction or
\* dispatch is still in flight the close has already been issued.
C8_BridgeClosedBeforeExtraction ==
  \A t \in tasks : t.kind = "stop" => dg \notin {"CONNECTING", "OPEN"}

\* A reply cycle advances: its reply is generated or its audio synthesized.
ReplyStep ==
  \E t \in tasks : t.kind = "reply" /\ t.pc \in {"llm", "tts"} /\ t \notin tasks'

\* A sender's queue grows: frames are enqueued.
EnqueueStep ==
  \E i \in 1..Len(senders) : Len(senders'[i].q) > Len(senders[i].q)

\* C9: Closed is terminal: once the transport has closed, no transcript is
\* appended, no reply is generated or synthesized, no frame is enqueued or
\* transmitted and no lead is dispatched.
C9_ClosedIsTerminal ==
  [][wsState = "CLOSED" =>
       /\ fullTranscript' = fullTranscript
       /\ ~ReplyStep
       /\ ~EnqueueStep
       /\ sent' = sent
       /\ leads' = leads]_vars

\* C10: a malformed inbound message (not JSON, or a media event without its
\* payload) is dropped: no exception escapes the handler.
C10_MalformedDropped ==
  crashed # "TypeError"

\* C11: no event aborts the hosting process: no exception escapes a handler and
\* no emitted event goes unhandled.
C11_ProcessNeverAborts ==
  crashed = "no"

\* A greeting starts: a start (or bridge-open) handler begins synthesizing it.
GreetStep ==
  \E t \in tasks' \ tasks : t.kind = "greet" /\ t.pc = "tts"

\* C12: the lifecycle only moves forward: once stop has been received, a later
\* start or media event triggers no greeting, creates no frame sender, opens no
\* bridge connection and forwards no audio.
C12_NoRestartAfterStop ==
  [][(nStop > 0 /\ (nStart' # nStart \/ nMedia' # nMedia)) =>
       /\ ~GreetStep
       /\ Len(senders') = Len(senders)
       /\ dgCreated' = dgCreated
       /\ dgSent' = dgSent]_vars

\* A reply cycle starts: a bridge message suspends in the reply generation.
ReplyStart ==
  \E t \in tasks' \ tasks : t.kind = "reply" /\ t.pc = "llm"

\* C16: a reply cycle starts and the transcript log grows only in the handling
\* of a bridge message that is final and has non-empty text; an interim message,
\* one with empty text, one without alternative and one that is not JSON start
\* nothing and append nothing.
C16_OnlyFinalNonEmptyTriggers ==
  [][(ReplyStart \/ fullTranscript' # fullTranscript) => nFinal' = nFinal + 1]_vars

C16_Witness ==
  /\ nFinal > 0
  /\ \E t \in tasks : t.kind = "reply" /\ t.pc = "llm" /\ t.k = nFinal

\* C17: either finality field counts: every message the service marks final
\* (is_final or speech_final) with non-empty text starts a reply cycle.
C17_EitherFinalityFieldTriggers ==
  [][nFinal' = nFinal + 1 => ReplyStart]_vars

\* C19: the caller identity is captured at the first start and never changes
\* afterwards.
C19_CallerImmutable ==
  [][nStart > 0 => caller' = caller]_vars

\* C13: while bridge credentials are available, every media event with audio
\* received once the session is Started is forwarded to the bridge: none is
\* dropped, also not while the bridge is still connecting.
C13_NoAudioDropped ==
  haveDG => \A k \in audioIn : \E i \in 1..Len(dgSent) : dgSent[i] = k

\* C14: when the primary synthesis request fails or answers with a JSON
\* content type, the secondary provider is asked exactly once and the primary
\* is not asked again; when the primary returns audio the secondary is not asked.
C14_FallbackExactlyOnce ==
  /\ synth.primary \in {"json", "fail"} => (synth.secCalls = 1 /\ synth.priCalls = 1)
  /\ synth.primary = "audio" => synth.secCalls = 0

\* A synthesis returns to the handler that awaited it.
SynthStep ==
  \E t \in tasks : t.pc = "tts" /\ t \notin tasks'

\* Every provider asked in synthesis r has failed.
AllFailed(r) ==
  r.primary \in {"json", "fail"} /\ r.secondary \in {"fail", "none"}

\* C15: when every synthesis provider fails, synthesize returns a zero-length
\* buffer without throwing and nothing is enqueued for it: no frame is
\* transmitted (no priming silence either), no sender changes (primed stays
\* unset) and no pacing loop starts.
C15_EmptySynthesisSendsNothing ==
  [][(SynthStep /\ AllFailed(synth')) =>
       /\ synth'.len = 0
       /\ crashed' = crashed
       /\ sent' = sent
       /\ senders' = senders
       /\ nEnq' = nEnq
       /\ \A t \in tasks' \ tasks : t.pc # "send"]_vars

C15_Witness ==
  /\ AllFailed(synth) /\ synth.len = 0
  /\ variant = "server_a"
  /\ streamSid # "none" /\ wsState = "OPEN"
  /\ Len(senders) > 0 /\ ~senders[Len(senders)].primed
  /\ sent = <<>>

\* C18: sessions are independent; in particular every frame sent on a
\* session's transport carries a stream token and belongs to a buffer that
\* this session enqueued.
C18_FramesAreTheSessionsOwn ==
  \A i \in 1..Len(sent) :
    sent[i].sid # "none" /\ sent[i].frame.seq \in 1..nEnq

NoReplyCycle ==
  /\ \A t \in tasks : t.kind # "reply"
  /\ fullTranscript = <<>>

\* The session got start (token and caller), then media, then stop, with no
\* finalized transcript, and the stop handler has run to its end.
HangupScenarioDone ==
  /\ Running /\ haveDG
  /\ nStart = 1 /\ streamSid = Tok(1)
  /\ audioIn # {} /\ nStop = 1 /\ nFinal = 0
  /\ \A t \in tasks : t.kind # "stop"

\* C21: after start, media and stop with nothing transcribed, the bridge was
\* opened once and is closed, no reply cycle ran, and exactly one lead was
\* dispatched: the default fields, the hangup phrase as summary and the start
\* event's caller as caller_number.
C21_HangupScenario ==
  HangupScenarioDone =>
    /\ dgCreated = 1 /\ dg \in {"CLOSING", "CLOSED"}
    /\ NoReplyCycle
    /\ Len(leads) = 1
    /\ leads[1].fields = llmExtract(HangupText, "error")
    /\ leads[1].fields.call_summary = [of |-> HangupText, chars |-> HANGUP_LEN]
    /\ leads[1].caller_number = Cal(1)

\* C22: without transcription credentials no bridge connection is created.
C22_NoBridgeWithoutCredentials ==
  ~haveDG => dgCreated = 0

\* C24: synthesize never returns container bytes: a response wrapped in an
\* audio container comes back as its payload only.
C24_ContainerStripped ==
  synth.hdr = 0

\* C23: a bridge error leaves the transport and the process as they were;
\* after it, a media event is dropped without raising and forwards nothing,
\* and a stop event still starts the extraction that ends in the dispatch.
C23_BridgeErrorDoesNotEndSession ==
  [][/\ (dgErrored' /\ ~dgErrored) => (wsState' = wsState /\ crashed' = crashed)
     /\ (dgErrored /\ nMedia' = nMedia + 1) => (crashed' = crashed /\ dgSent' = dgSent)
     /\ (dgErrored /\ nStop' = nStop + 1) =>
           \E t \in tasks' : t.kind = "stop" /\ t.k = nStop']_vars

\* C26: the chunks forwarded to the bridge are media events received, in the
\* order they were received and each at most once.
C26_ForwardedInReceiveOrder ==
  /\ \A i \in 1..Len(dgSent) : dgSent[i] \in 0..nMedia
  /\ \A i, j \in 1..Len(dgSent) :
       (i < j /\ dgSent[i] # 0 /\ dgSent[j] # 0) => dgSent[i] < dgSent[j]

\* C26 witness: two media events have both been forwarded.
C26_Witness ==
  /\ Len(dgSent) = 2
  /\ dgSent[1] = 1 /\ dgSent[2] = 2

\* C27: a session creates at most one bridge connection.
C27_AtMostOneBridge ==
  dgCreated <= 1

\* C27 witness: the lazily created bridge has closed and a further media event
\* has arrived without a second connection being made.
C27_Witness ==
  /\ variant = "server_a" /\ dgErrored
  /\ dg = "CLOSED" /\ nMedia = 2 /\ dgCreated = 1

\* C28: the first frames a session sends are the priming silence, and only
\* the first enqueue of the session is preceded by silence.
C28_PrimedOnFirstEnqueueOnly ==
  /\ Len(sent) > 0 => sent[1].frame.kind = "silence"
  /\ \A i \in 1..Len(sent) :
       sent[i].frame.kind = "silence" => sent[i].frame.seq = 1

\* C25: with a shared secret configured, a request to the webhook path whose
\* signature is wrong or missing is rejected and gets no call-control
\* document, whatever its method; without a secret a POST is answered without
\* a signature check.
C25_SignatureRequiredIffSecret ==
  probe.op = "webhook" =>
    /\ (probe.secret /\ probe.sig # "valid") => ~probe.answer.twiml
    /\ (~probe.secret /\ probe.method = "POST") => probe.answer.status # 403

\* C29: padToFrame lengthens a buffer by fewer than 160 silence bytes to a
\* multiple of 160, and toFrames cuts the padded buffer into ceil(N/160)
\* consecutive frames of exactly 160 bytes, the silence at the very end.
C29_PadAndFrame ==
  probe.op = "frames" =>
    /\ probe.padded % FRAME_BYTES = 0
    /\ probe.padded >= probe.n /\ probe.padded - probe.n < FRAME_BYTES
    /\ Len(probe.frames) = (probe.n + FRAME_BYTES - 1) \div FRAME_BYTES
    /\ Len(probe.frames) * FRAME_BYTES = probe.padded
    /\ \A j \in 1..Len(probe.frames) :
         /\ probe.frames[j].n + probe.frames[j].pad = FRAME_BYTES
         /\ probe.frames[j].n > 0
         /\ probe.frames[j].off = (j - 1) * FRAME_BYTES
         /\ j < Len(probe.frames) => probe.frames[j].pad = 0
         /\ j = Len(probe.frames) =>
              probe.frames[j].off + probe.frames[j].n = probe.n

\* C29 witness: a buffer of one frame and a tail has been padded and framed.
C29_Witness ==
  /\ probe.op = "frames"
  /\ probe.n = FRAME_BYTES + ExtraBytes
  /\ Len(probe.frames) = 2
  /\ probe.frames[2].pad = FRAME_BYTES - ExtraBytes

\* C30: the encoder turns the linear sample 0 into the silence byte 0xFF.
C30_ZeroEncodesToSilence ==
  (probe.op = "encode" /\ probe.sample = 0) => probe.byte = ULawSilence

\* |x| of a sample.
Abs(x) == IF x < 0 THEN 0 - x ELSE x

\* The exponent and mantissa a byte carries (its low seven bits, inverted).
Magnitude(byte) == (255 - byte) % 128

\* C31: the encoder returns a byte whose sign bit follows the sample's sign,
\* whose magnitude never decreases as |sample| grows, and which beyond the
\* clip limit equals the byte of the clip limit of the same sign.
C31_ClippedAndMonotone ==
  probe.op = "encode" =>
    /\ probe.byte \in 0..255
    /\ ((255 - probe.byte) \div 128 = 1) <=> (probe.sample < 0)
    /\ \A t \in Samples :
         Abs(t) <= Abs(probe.sample) =>
           Magnitude(ulawOf(t)) <= Magnitude(probe.byte)
    /\ probe.sample > CLIP => probe.byte = ulawOf(CLIP)
    /\ probe.sample < 0 - CLIP => probe.byte = ulawOf(0 - CLIP)

\* C32: the decimator returns its input when the rates match; otherwise, for
\* every input length, it returns without error the samples at indexes 0, r,
\* 2r, ... of the input (r = srcRate / dstRate) and writes nothing past the
\* end of its output buffer.
C32_DecimateFixedStride ==
  probe.op = "decimate" =>
    LET r == probe.srcRate \div probe.dstRate
        samples == probe.len \div 2
        res == probe.result
    IN  /\ ~res.err
        /\ probe.srcRate = probe.dstRate => res.unchanged
        /\ probe.srcRate # probe.dstRate =>
             /\ Len(res.reads) = (samples + r - 1) \div r
             /\ \A k \in 1..Len(res.reads) : res.reads[k] = 2 * r * (k - 1)
             /\ 2 * Len(res.reads) <= res.cap

\* Sender n has nothing queued and its pacing loop has stopped.
Drained(n) ==
  /\ senders[n].q = <<>>
  /\ ~senders[n].sending
  /\ senders[n].timer = "none"

\* C33: while the transport stays open every queue is drained again and again,
\* and a frame leaves a queue only by being transmitted on an open transport;
\* a timer that fires on an empty queue or a transport that is not open resets
\* the draining flag, sets no timer and transmits nothing.
C33_DrainsAndStops ==
  /\ []<>(~WsOpen \/ \A n \in 1..Len(senders) : Drained(n))
  /\ [][\A n \in 1..Len(senders) :
         /\ Len(senders'[n].q) < Len(senders[n].q) =>
              /\ WsOpen
              /\ senders'[n].q = Tail(senders[n].q)
              /\ Len(sent') = Len(sent) + 1
              /\ sent'[Len(sent')].frame = Head(senders[n].q)
         /\ (/\ senders[n].timer = "due" /\ senders'[n] # senders[n]
             /\ (senders[n].q = <<>> \/ ~WsOpen)) =>
              /\ ~senders'[n].sending /\ senders'[n].timer = "none"
              /\ senders'[n].q = senders[n].q
              /\ sent' = sent
         /\ ~WsOpen => sent' = sent]_vars

\* C33 witness: one primed buffer has been transmitted whole on an open
\* transport and the loop has seen the empty queue and stopped.
C33_Witness ==
  /\ WsOpen /\ nEnq = 1 /\ Len(senders) = 1
  /\ Len(sent) = PRIME_FRAMES + 2
  /\ Drained(1) /\ senders[1].primed

\* C34: clear() empties the queue and resets primed and nothing else; a frame
\* is transmitted only from the head of a queue as it is at that moment; an
\* enqueue that finds a timer pending transmits nothing itself; and an
\* enqueue on a sender that is not primed queues the priming silence.
C34_ClearDiscardsAndReprimes ==
  [][\A n \in 1..Len(senders) :
       /\ (senders[n].primed /\ ~senders'[n].primed) =>
            /\ senders'[n] = [senders[n] EXCEPT !.q = <<>>, !.primed = FALSE]
            /\ sent' = sent
       /\ (senders'[n] # senders[n] /\ Len(sent') > Len(sent)) =>
            \A i \in (Len(sent) + 1)..Len(sent') :
              \/ senders[n].q # <<>> /\ sent'[i].frame = Head(senders[n].q)
              \/ senders[n].q = <<>> /\ sent'[i].frame.seq = nEnq'
       /\ (nEnq' = nEnq + 1 /\ senders'[n] # senders[n]) =>
            /\ senders[n].timer # "none" => sent' = sent
            /\ ~senders[n].primed =>
                 Len(senders'[n].q) + (Len(sent') - Len(sent)) =
                   Len(senders[n].q) + PRIME_FRAMES + 2]_vars

\* C34 witness: a sender with a timer pending was cleared and the next
\* enqueue primed it again: silence of the second buffer has been sent.
C34_Witness ==
  /\ Len(senders) = 1 /\ nEnq = 2
  /\ \E i \in 1..Len(sent) :
       sent[i].frame.kind = "silence" /\ sent[i].frame.seq = 2

\* C35: at most one pacing loop of a session has a timer pending.
C35_OnePacingLoop ==
  Cardinality({n \in 1..Len(senders) : senders[n].timer # "none"}) <= 1

\* C36: the text a stop handler has joined is the session's whole log: once
\* the log has been joined no transcript is appended and no reply cycle starts.
C36_JoinedLogIsWholeLog ==
  [][/\ \A t \in tasks' : t.kind = "stop" => t.text = fullTranscript'
     /\ (\E t \in tasks : t.kind = "stop") =>
          (fullTranscript' = fullTranscript /\ ~ReplyStart)]_vars

\* The bridge does not exist, is closing or has closed.
BridgeDown == dg \in {"null", "CLOSING", "CLOSED"}

\* C37: a stop event either closes the bridge at once or starts a stop handler,
\* and a stop handler in progress leads to the bridge being closed (unless the
\* process has ended), whatever the extraction and the dispatch return.
C37_StopClosesBridge ==
  /\ [][nStop' = nStop + 1 =>
          \/ BridgeDown'
          \/ \E t \in tasks' : t.kind = "stop" /\ t.k = nStop']_vars
  /\ (\E t \in tasks : t.kind = "stop") ~> (BridgeDown \/ ~Running)

\* C37 witness: a stop handler whose extraction failed has dispatched its
\* lead and then closed the open bridge, the transport still being open.
C37_Witness ==
  /\ variant \in {"part_000", "part_001", "part_002"}
  /\ wsState = "OPEN" /\ nStop = 1
  /\ \A t \in tasks : t.kind # "stop"
  /\ Len(leads) = 1 /\ leads[1].outcome = "error"
  /\ dg = "CLOSING"

\* The positions of character c in a text.
Positions(text, c) == {i \in 1..Len(text) : text[i] = c}

\* The least and the greatest of a non-empty set of positions.
Least(S) == CHOOSE i \in S : \A j \in S : i <= j
Greatest(S) == CHOOSE i \in S : \A j \in S : j <= i

\* C38: parseJsonLoose returns null exactly when the text is empty, has no
\* '{', has no '}', has its last '}' before its first '{', or when the span
\* between them is not valid JSON; otherwise it returns that span parsed; and
\* prose put before and after the text does not change the result.
C38_ParsesFirstToLast ==
  probe.op = "parse" =>
    LET t == probe.text
        opens == Positions(t, "{")
        closes == Positions(t, "}")
        noSpan == opens = {} \/ closes = {} \/ Greatest(closes) < Least(opens)
    IN  /\ probe.result.null <=>
             \/ noSpan
             \/ JSONparse(SubSeq(t, Least(opens), Greatest(closes))).null
        /\ ~probe.result.null =>
             probe.result.value = SubSeq(t, Least(opens), Greatest(closes))
        /\ \A pre, post \in {<<>>, <<"p">>, <<"k", "p">>} :
             parseJsonLoose(pre \o t \o post) = probe.result

\* C38 witness: an object between prose has been parsed.
C38_Witness ==
  /\ probe.op = "parse"
  /\ probe.text = <<"p", "{", "k", "}">>
  /\ probe.result = [null |-> FALSE, value |-> <<"{", "k", "}">>]

====
